---- MODULE Spec2Model ----
(***************************************************************************)
(* The function-tool adapter of package functions (src/functions/type.go): *)
(* schema synthesis from a function's parameter shape, the argument binder *)
(* with its coercion matrix (convertToType), Tool.Execute and the handler  *)
(* built by Tool.ServerTool.                                               *)
(*                                                                         *)
(* Go values are records [k |-> dynamic type name, v |-> payload]; the nil *)
(* interface is NilValue.  Floating-point payloads are counted in tenths   *)
(* (3.7 is 37).  reflect.Type is a record [name, kind, ...].  Where Go     *)
(* leaves an order open (map iteration) an operator returns the SET of     *)
(* outcomes the build can produce.                                         *)
(***************************************************************************)
EXTENDS Integers, Sequences, FiniteSets, TLC

VARIABLES tool, last

vars == <<tool, last>>

(***************************************************************************)
(* Bounds of the model.                                                    *)
(***************************************************************************)
\* most keys of one input map handed to Execute or the handler
MaxKeys == 2
\* most fields of a generated record type handed to the schema synthesizer
MaxFields == 2

(***************************************************************************)
(* reflect.Type                                                            *)
(***************************************************************************)
BoolT == [name |-> "bool", kind |-> "Bool"]
IntT == [name |-> "int", kind |-> "Int"]
Int8T == [name |-> "int8", kind |-> "Int8"]
UintT == [name |-> "uint", kind |-> "Uint"]
Uint8T == [name |-> "uint8", kind |-> "Uint8"]
Float64T == [name |-> "float64", kind |-> "Float64"]
StringT == [name |-> "string", kind |-> "String"]
AnyT == [name |-> "interface {}", kind |-> "Interface"]
ChanT == [name |-> "chan int", kind |-> "Chan"]
PtrTo(t) == [name |-> "*" \o t.name, kind |-> "Ptr", elem |-> t]
\* the length of an array type as its name spells it (lengths below ten)
DigitName(n) == SubSeq("0123456789", n + 1, n + 1)
SliceOf(t) == [name |-> "[]" \o t.name, kind |-> "Slice", elem |-> t]
ArrayOf(n, t) == [name |-> "[" \o DigitName(n) \o "]" \o t.name, kind |-> "Array", len |-> n, elem |-> t]
MapOf(kt, t) == [name |-> "map[" \o kt.name \o "]" \o t.name, kind |-> "Map", key |-> kt, elem |-> t]
StructOf(n, fs) == [name |-> n, kind |-> "Struct", fields |-> fs]

\* reflect.StructField: PkgPath is non-empty exactly for an unexported field;
\* the struct tag is kept per key (json, doc, mcpdescription), "" when the
\* key is not in the tag.
Field(n, exp, json, doc, mcpd, t) == [name |-> n, exported |-> exp, json |-> json, doc |-> doc, mcpdescription |-> mcpd, type |-> t]

Elem(t) == t.elem
Key(t) == t.key

SignedKinds == {"Int", "Int8", "Int16", "Int32", "Int64"}
UnsignedKinds == {"Uint", "Uint8", "Uint16", "Uint32", "Uint64"}
FloatKinds == {"Float32", "Float64"}

\* the dynamic type names of signed, unsigned and floating values
SignedNames == {"int", "int8", "int16", "int32", "int64"}
UnsignedNames == {"uint", "uint8", "uint16", "uint32", "uint64"}
FloatNames == {"float32", "float64"}

(***************************************************************************)
(* Go values                                                               *)
(***************************************************************************)
NilValue == [k |-> "nil", v |-> 0]
BoolV(b) == [k |-> "bool", v |-> b]
NumV(n, x) == [k |-> n, v |-> x]
IntV(x) == NumV("int", x)
FloatV(tenths) == NumV("float64", tenths)
StrV(s) == [k |-> "string", v |-> s]
SliceV(s) == [k |-> "[]interface {}", v |-> s]
MapV(f) == [k |-> "map[string]interface {}", v |-> f]

\* reflect.Zero(t).Interface(): the zero value of t as an interface value.
\* A nil slice, map or pointer keeps its type; the zero of an interface type
\* is the nil interface itself.
RECURSIVE ZeroOf(_)
ZeroOf(t) ==
  CASE t.kind = "Bool" -> [k |-> t.name, v |-> FALSE]
    [] t.kind \in SignedKinds \cup UnsignedKinds \cup FloatKinds -> [k |-> t.name, v |-> 0]
    [] t.kind = "String" -> [k |-> t.name, v |-> ""]
    [] t.kind = "Interface" -> NilValue
    [] t.kind = "Struct" -> [k |-> t.name, v |-> [j \in 1..Len(t.fields) |-> ZeroOf(t.fields[j].type)]]
    [] t.kind = "Ptr" -> [k |-> t.name, v |-> 0]
    [] t.kind = "Array" -> [k |-> t.name, v |-> [j \in 1..t.len |-> ZeroOf(t.elem)]]
    [] OTHER -> [k |-> t.name, v |-> <<>>]

\* reflect.Value: valid is false for the zero Value that reflect.ValueOf(nil) gives.
ReflectValueOf(x) == [valid |-> x # NilValue, x |-> x]
ReflectZero(t) == [valid |-> TRUE, x |-> ZeroOf(t)]

\* valueType.AssignableTo(targetType) for the types of the model: identical
\* types, or any type to the empty interface.
AssignableTo(vk, t) == t.kind = "Interface" \/ vk = t.name

(***************************************************************************)
(* strconv and fmt                                                         *)
(***************************************************************************)
Digits == "0123456789"
DigitChar(d) == SubSeq(Digits, d + 1, d + 1)
IsDigit(c) == \E d \in 0..9 : DigitChar(d) = c
DigitVal(c) == CHOOSE d \in 0..9 : DigitChar(d) = c
CharAt(s, i) == SubSeq(s, i, i)
Rest(s, i) == SubSeq(s, i, Len(s))

\* strconv.ParseBool: exactly these twelve literals.
ParseBool(s) ==
  IF s \in {"1", "t", "T", "TRUE", "true", "True"} THEN [ok |-> TRUE, val |-> TRUE]
  ELSE IF s \in {"0", "f", "F", "FALSE", "false", "False"} THEN [ok |-> TRUE, val |-> FALSE]
  ELSE [ok |-> FALSE, val |-> FALSE]

\* the value of a run of decimal digits
RECURSIVE ParseDigits(_, _)
ParseDigits(s, acc) ==
  IF s = "" THEN [ok |-> TRUE, val |-> acc]
  ELSE IF IsDigit(CharAt(s, 1)) THEN ParseDigits(Rest(s, 2), acc * 10 + DigitVal(CharAt(s, 1)))
  ELSE [ok |-> FALSE, val |-> 0]

\* the decimal digits of the largest int64, 9223372036854775807
MaxInt64Digits == 19

AllDigits(s) == \A i \in 1..Len(s) : IsDigit(CharAt(s, i))
\* the digits of s from its first non-zero digit on
RECURSIVE Significant(_)
Significant(s) == IF s # "" /\ CharAt(s, 1) = "0" THEN Significant(Rest(s, 2)) ELSE s

\* strconv.ParseUint(s, 10, 64): a non-empty run of decimal digits; a run of
\* more significant digits than an int64 has is out of range (the model
\* holds no string of ten to nineteen digits, whose range the digit count
\* does not settle).
ParseUint(s) ==
  IF s = "" \/ ~AllDigits(s) THEN [ok |-> FALSE, val |-> 0, err |-> "invalid syntax"]
  ELSE IF Len(Significant(s)) > MaxInt64Digits THEN [ok |-> FALSE, val |-> 0, err |-> "value out of range"]
  ELSE [ok |-> TRUE, val |-> ParseDigits(s, 0).val, err |-> ""]

\* strconv.ParseInt(s, 10, 64): an optional sign, then ParseUint.
ParseInt(s) ==
  IF s = "" THEN [ok |-> FALSE, val |-> 0, err |-> "invalid syntax"]
  ELSE LET neg == CharAt(s, 1) = "-"
           body == IF CharAt(s, 1) \in {"+", "-"} THEN Rest(s, 2) ELSE s
           un == ParseUint(body)
       IN IF ~un.ok THEN un
          ELSE [ok |-> TRUE, val |-> IF neg THEN 0 - un.val ELSE un.val, err |-> ""]

\* strconv.ParseFloat(s, 64) on decimal literals with at most one fractional
\* digit (the strings of the model hold no exponent, hex, inf or nan form);
\* the value is in tenths.
ParseFloat(s) ==
  IF s = "" THEN [ok |-> FALSE, val |-> 0]
  ELSE LET neg == CharAt(s, 1) = "-"
           body == IF CharAt(s, 1) \in {"+", "-"} THEN Rest(s, 2) ELSE s
           dots == {i \in 1..Len(body) : CharAt(body, i) = "."}
           dot == IF dots = {} THEN Len(body) + 1 ELSE CHOOSE i \in dots : \A j \in dots : i <= j
           ip == SubSeq(body, 1, dot - 1)
           fp == SubSeq(body, dot + 1, Len(body))
           iv == ParseDigits(ip, 0)
           fv == ParseDigits(fp, 0)
           mag == iv.val * 10 + fv.val
       IN IF (ip = "" /\ fp = "") \/ ~iv.ok \/ ~fv.ok \/ Len(fp) > 1 THEN [ok |-> FALSE, val |-> 0]
          ELSE [ok |-> TRUE, val |-> IF neg THEN 0 - mag ELSE mag]

\* strconv.FormatInt(n, 10)
RECURSIVE FormatUint(_)
FormatUint(n) == IF n < 10 THEN DigitChar(n) ELSE FormatUint(n \div 10) \o DigitChar(n % 10)

FormatInt(n) == IF n < 0 THEN "-" \o FormatUint(0 - n) ELSE FormatUint(n)

\* %v of a float64 counted in tenths: the shortest decimal form.
FormatFloat(x) ==
  LET mag == IF x < 0 THEN 0 - x ELSE x
      txt == IF mag % 10 = 0 THEN FormatUint(mag \div 10) ELSE FormatUint(mag \div 10) \o "." \o DigitChar(mag % 10)
  IN IF x < 0 THEN "-" \o txt ELSE txt

\* the keys of a map value in the sorted order fmt prints them in; the model's
\* keys are ordered by their place in KeyOrder.
KeyOrder == <<"", "-", "Extra", "Token", "count", "extra", "flag", "id", "note", "p", "secret", "value", "x">>
KeyRank(key) == CHOOSE i \in 1..Len(KeyOrder) : KeyOrder[i] = key
RECURSIVE SortedKeys(_)
SortedKeys(ks) ==
  IF ks = {} THEN <<>>
  ELSE LET m == CHOOSE a \in ks : \A b \in ks : KeyRank(a) <= KeyRank(b)
       IN <<m>> \o SortedKeys(ks \ {m})

\* fmt.Sprintf("%v", value)
RECURSIVE Sprintv(_)
RECURSIVE JoinV(_, _)
JoinV(s, sep) ==
  IF Len(s) = 0 THEN ""
  ELSE IF Len(s) = 1 THEN s[1]
  ELSE s[1] \o sep \o JoinV(Tail(s), sep)

Sprintv(x) ==
  CASE x.k = "nil" -> "<nil>"
    [] x.k = "bool" -> IF x.v THEN "true" ELSE "false"
    [] x.k \in SignedNames \cup UnsignedNames -> FormatInt(x.v)
    [] x.k \in FloatNames -> FormatFloat(x.v)
    [] x.k = "string" -> x.v
    [] x.k = "[]interface {}" -> "[" \o JoinV([i \in 1..Len(x.v) |-> Sprintv(x.v[i])], " ") \o "]"
    [] x.k = "map[string]interface {}" ->
         LET ks == SortedKeys(DOMAIN x.v)
         IN "map[" \o JoinV([i \in 1..Len(ks) |-> ks[i] \o ":" \o Sprintv(x.v[ks[i]])], " ") \o "]"
    [] OTHER -> "?"

(***************************************************************************)
(* convertToType                                                           *)
(***************************************************************************)
\* What a call can end in: (val, nil), (val, err) or a run-time panic.
Ok(v) == [st |-> "ok", val |-> v, err |-> ""]
Err(v, msg) == [st |-> "err", val |-> v, err |-> msg]
Panic(msg) == [st |-> "panic", val |-> NilValue, err |-> msg]

\* reflect.Value.Int(): defined on the signed kinds only, a panic on any other.
ReflectInt(x) ==
  IF x.k \in SignedNames THEN Ok(x)
  ELSE Panic("reflect: call of reflect.Value.Int on " \o x.k \o " Value")

\* int64(floatVal): the fraction is dropped, toward zero.
TruncToInt(tenths) == IF tenths >= 0 THEN tenths \div 10 ELSE 0 - ((0 - tenths) \div 10)

KindBits(kind) ==
  CASE kind \in {"Int8", "Uint8"} -> 8
    [] kind \in {"Int16", "Uint16"} -> 16
    [] kind \in {"Int32", "Uint32"} -> 32
    [] OTHER -> 64

\* reflect.Value.Convert from int64 to a signed target: the low bits are kept.
\* The model's integers stay far inside 32 bits, so only the 8- and 16-bit
\* targets can wrap.
ConvertInt(n, t) ==
  LET bits == KindBits(t.kind)
      half == 2 ^ (bits - 1)
  IN [k |-> t.name, v |-> IF bits >= 32 THEN n ELSE ((n + half) % (2 * half)) - half]

\* reflect.Value.Set and the argument check of reflect.Value.Call: the zero
\* Value, or a value of a type not assignable to the destination, is a panic.
CanHold(rv, t) == rv.valid /\ AssignableTo(rv.x.k, t)

RECURSIVE convertToType(_, _)
RECURSIVE ConvertSlice(_, _, _, _)

\* The Bool arm of the switch, lines 508-523.
ConvertBool(value, targetType) ==
  CASE value.k = "bool" -> {Ok(value)}
    [] value.k \in SignedNames \cup UnsignedNames \cup FloatNames ->
         LET i == ReflectInt(value)
         IN IF i.st = "panic" THEN {i} ELSE {Ok(BoolV(i.val.v # 0))}
    [] value.k = "string" ->
         LET b == ParseBool(value.v)
         IN IF b.ok THEN {Ok(BoolV(b.val))}
            ELSE {Err(BoolV(FALSE), "cannot convert " \o Sprintv(value) \o " to bool: invalid syntax")}
    [] OTHER -> {Err(BoolV(FALSE), "cannot convert " \o Sprintv(value) \o " to bool")}

\* The signed-integer arm, lines 525-542.
ConvertSigned(value, targetType) ==
  CASE value.k \in SignedNames \cup UnsignedNames ->
         LET i == ReflectInt(value)
         IN IF i.st = "panic" THEN {i} ELSE {Ok(ConvertInt(i.val.v, targetType))}
    [] value.k \in FloatNames -> {Ok(ConvertInt(TruncToInt(value.v), targetType))}
    [] value.k = "string" ->
         LET p == ParseInt(value.v)
         IN IF p.ok THEN {Ok(ConvertInt(p.val, targetType))}
            ELSE {Err(IntV(0), "cannot convert " \o Sprintv(value) \o " to int: " \o p.err)}
    [] OTHER -> {Err(IntV(0), "cannot convert " \o Sprintv(value) \o " to int")}

\* The floating-point arm, lines 544-561.
ConvertFloat(value, targetType) ==
  CASE value.k \in SignedNames \cup UnsignedNames ->
         LET i == ReflectInt(value)
         IN IF i.st = "panic" THEN {i} ELSE {Ok([k |-> targetType.name, v |-> i.val.v * 10])}
    [] value.k \in FloatNames -> {Ok([k |-> targetType.name, v |-> value.v])}
    [] value.k = "string" ->
         LET p == ParseFloat(value.v)
         IN IF p.ok THEN {Ok([k |-> targetType.name, v |-> p.val])}
            ELSE {Err(FloatV(0), "cannot convert " \o Sprintv(value) \o " to float: invalid syntax")}
    [] OTHER -> {Err(FloatV(0), "cannot convert " \o Sprintv(value) \o " to float")}

\* The loop of the slice arm from element i on (1-based here, 0-based in the
\* message), acc holding the elements converted so far.
ConvertSlice(elems, i, acc, targetType) ==
  IF i > Len(elems) THEN {Ok([k |-> targetType.name, v |-> acc])}
  ELSE UNION {
         CASE o.st = "err" -> {Err(NilValue, "cannot convert slice element " \o FormatInt(i - 1) \o ": " \o o.err)}
           [] o.st = "panic" -> {o}
           [] OTHER ->
                IF ~CanHold(ReflectValueOf(o.val), Elem(targetType))
                THEN {Panic("reflect: call of reflect.Value.Set on zero Value")}
                ELSE ConvertSlice(elems, i + 1, Append(acc, o.val), targetType)
         : o \in convertToType(elems[i], Elem(targetType)) }

\* The map arm, lines 583-603.  Go ranges over the input map in an order it
\* leaves open, so any entry that does not convert may be the one met first.
\* SetMapIndex with the zero Value deletes the key.
ConvertMap(value, targetType) ==
  IF value.k # "map[string]interface {}"
  THEN {Err(NilValue, "cannot convert " \o Sprintv(value) \o " to map")}
  ELSE LET keys == DOMAIN value.v
           outs(key) == convertToType(value.v[key], Elem(targetType))
           bad(key) == { IF o.st = "err"
                         THEN Err(NilValue, "cannot convert map element " \o key \o ": " \o o.err)
                         ELSE IF o.st = "panic" THEN o
                         ELSE Panic("reflect.Value.SetMapIndex: value is not assignable")
                         : o \in { p \in outs(key) : p.st # "ok" \/ (p.val # NilValue /\ ~AssignableTo(p.val.k, Elem(targetType))) } }
           good(key) == { o.val : o \in { p \in outs(key) : p.st = "ok" /\ (p.val = NilValue \/ AssignableTo(p.val.k, Elem(targetType))) } }
           all == UNION { good(key) : key \in keys }
           picks == { f \in [keys -> all] : \A key \in keys : f[key] \in good(key) }
       IN UNION { bad(key) : key \in keys } \cup
          { Ok([k |-> targetType.name, v |-> [key \in { q \in keys : f[q] # NilValue } |-> f[key]]]) : f \in picks }

convertToType(value, targetType) ==
  IF value = NilValue THEN {Ok(ZeroOf(targetType))}
  ELSE IF AssignableTo(value.k, targetType) THEN {Ok(value)}
  ELSE CASE targetType.kind = "String" -> {Ok(StrV(Sprintv(value)))}
         [] targetType.kind = "Bool" -> ConvertBool(value, targetType)
         [] targetType.kind \in SignedKinds -> ConvertSigned(value, targetType)
         [] targetType.kind \in FloatKinds -> ConvertFloat(value, targetType)
         [] targetType.kind = "Slice" ->
              IF value.k = "[]interface {}" THEN ConvertSlice(value.v, 1, <<>>, targetType)
              ELSE {Err(NilValue, "cannot convert " \o Sprintv(value) \o " to slice")}
         [] targetType.kind = "Map" /\ Key(targetType).kind = "String" -> ConvertMap(value, targetType)
         [] OTHER -> {Err(NilValue, "cannot convert " \o Sprintv(value) \o " (type " \o value.k \o ") to " \o targetType.name)}

(***************************************************************************)
(* Function types and struct tags                                          *)
(***************************************************************************)
ContextT == [name |-> "context.Context", kind |-> "Interface"]
ErrorT == [name |-> "error", kind |-> "Interface"]
FuncOf(in, out) == [kind |-> "Func", in |-> in, out |-> out]

\* fnType.In(0).Implements(context.Context)
ImplementsContext(t) == t.name = "context.Context"

hasContext(fnType) == Len(fnType.in) > 0 /\ ImplementsContext(fnType.in[1])

\* the opaque parameter: a map with string keys and interface elements
IsGenericMap(t) == t.kind = "Map" /\ Key(t).kind = "String" /\ Elem(t).kind = "Interface"

\* strings.Split(s, ",")
RECURSIVE SplitFrom(_, _, _, _)
SplitFrom(s, i, cur, acc) ==
  IF i > Len(s) THEN Append(acc, cur)
  ELSE IF CharAt(s, i) = "," THEN SplitFrom(s, i + 1, "", Append(acc, cur))
  ELSE SplitFrom(s, i + 1, cur \o CharAt(s, i), acc)

Split(s) == SplitFrom(s, 1, "", <<>>)

\* slices.Contains(parts[1:], "omitempty")
HasOmitEmpty(parts) == \E i \in 2..Len(parts) : parts[i] = "omitempty"

(***************************************************************************)
(* getTypeSchema and generateSchemaFromFunction                            *)
(***************************************************************************)
\* m[key] = val on a Go map held as a function
Put(m, key, val) == (key :> val) @@ m
EmptyMap == [key \in {} |-> 0]
\* the JSON literal true where a sub-schema could stand; held as a one-key
\* map so that it compares with the sub-schemas
JSONTrue == Put(EmptyMap, "const", TRUE)

RECURSIVE getTypeSchema(_)
RECURSIVE StructSchema(_, _, _)

\* IsRequired with the omitempty option ignored.
IsRequiredMutAlways(jsonTag) == TRUE

\* Lines 346-358 and 454-466: whether the field's name is appended to required.
IsRequired(jsonTag) == IF jsonTag # "" THEN ~HasOmitEmpty(Split(jsonTag)) ELSE TRUE

\* Lines 333-344 and 441-452: the name the field goes by.
FieldName(field) == IF field.json # "" THEN Split(field.json)[1] ELSE field.name

\* Lines 329-331, 342-344 and 437-439, 450-452: the fields the walk skips.
Skipped(field) == ~field.exported \/ (field.json # "" /\ FieldName(field) = "-")

\* The loop of the struct arm of getTypeSchema from field i on, lines 433-478.
StructSchema(t, i, schema) ==
  IF i > Len(t.fields) THEN schema
  ELSE LET field == t.fields[i]
           fieldName == FieldName(field)
           req == IF IsRequired(field.json) THEN Append(schema["required"], fieldName) ELSE schema["required"]
           fs == getTypeSchema(field.type)
           fieldSchema == IF field.doc # "" THEN Put(fs, "description", field.doc) ELSE fs
       IN IF Skipped(field) THEN StructSchema(t, i + 1, schema)
          ELSE StructSchema(t, i + 1,
                 Put(Put(schema, "required", req), "properties", Put(schema["properties"], fieldName, fieldSchema)))

getTypeSchema(t) ==
  CASE t.kind = "Ptr" ->
         LET elemSchema == getTypeSchema(Elem(t))
         IN IF "enum" \in DOMAIN elemSchema
            THEN Put(elemSchema, "enum", Append(elemSchema["enum"], NilValue))
            ELSE elemSchema
    [] t.kind = "Bool" -> Put(EmptyMap, "type", "boolean")
    [] t.kind \in SignedKinds \cup UnsignedKinds -> Put(EmptyMap, "type", "integer")
    [] t.kind \in FloatKinds -> Put(EmptyMap, "type", "number")
    [] t.kind = "String" -> Put(EmptyMap, "type", "string")
    [] t.kind \in {"Slice", "Array"} -> Put(Put(EmptyMap, "type", "array"), "items", getTypeSchema(Elem(t)))
    [] t.kind = "Map" ->
         Put(Put(EmptyMap, "type", "object"), "additionalProperties",
             IF Key(t).kind = "String" THEN getTypeSchema(Elem(t)) ELSE JSONTrue)
    [] t.kind = "Struct" ->
         StructSchema(t, 1, Put(Put(Put(EmptyMap, "type", "object"), "properties", EmptyMap), "required", <<>>))
    [] OTHER -> Put(EmptyMap, "type", "string")

\* RootFields with the name appended to Required before the `-` marker is
\* looked at.
RECURSIVE RootFieldsMutRequiredFirst(_, _, _)
RootFieldsMutRequiredFirst(paramType, i, schema) ==
  IF i > Len(paramType.fields) THEN schema
  ELSE LET field == paramType.fields[i]
           fieldName == FieldName(field)
           req == IF IsRequired(field.json) THEN Append(schema.Required, fieldName) ELSE schema.Required
           fs == getTypeSchema(field.type)
           fieldSchema == IF field.mcpdescription # "" THEN Put(fs, "description", field.mcpdescription) ELSE fs
       IN IF ~field.exported THEN RootFieldsMutRequiredFirst(paramType, i + 1, schema)
          ELSE IF Skipped(field) THEN RootFieldsMutRequiredFirst(paramType, i + 1, [schema EXCEPT !.Required = req])
          ELSE RootFieldsMutRequiredFirst(paramType, i + 1,
                 [schema EXCEPT !.Required = req, !.Properties = Put(schema.Properties, fieldName, fieldSchema)])

\* The loop over the fields of a struct parameter from field i on, lines 325-370.
RECURSIVE RootFields(_, _, _)
RootFields(paramType, i, schema) ==
  IF i > Len(paramType.fields) THEN schema
  ELSE LET field == paramType.fields[i]
           fieldName == FieldName(field)
           req == IF IsRequired(field.json) THEN Append(schema.Required, fieldName) ELSE schema.Required
           fs == getTypeSchema(field.type)
           fieldSchema == IF field.mcpdescription # "" THEN Put(fs, "description", field.mcpdescription) ELSE fs
       IN IF Skipped(field) THEN RootFields(paramType, i + 1, schema)
          ELSE RootFields(paramType, i + 1,
                 [schema EXCEPT !.Required = req, !.Properties = Put(schema.Properties, fieldName, fieldSchema)])

generateSchemaFromFunction(fnType) ==
  LET schema == [Type |-> "object", Properties |-> EmptyMap, Required |-> <<>>]
      startIndex == IF hasContext(fnType) THEN 2 ELSE 1
      paramType == fnType.in[startIndex]
  IN IF Len(fnType.in) < startIndex THEN schema
     ELSE IF IsGenericMap(paramType) THEN schema
     ELSE IF paramType.kind = "Struct" THEN RootFields(paramType, 1, schema)
     ELSE [schema EXCEPT !.Properties = Put(schema.Properties, "value", getTypeSchema(paramType)),
                         !.Required = Append(schema.Required, "value")]

(***************************************************************************)
(* Tool.Execute                                                            *)
(***************************************************************************)
\* errors are values too: fmt.Errorf and errors.New results
ErrV(msg) == [k |-> "*errors.errorString", v |-> msg]
WrapErrV(msg) == [k |-> "*fmt.wrapError", v |-> msg]
ErrorTypeNames == {"*errors.errorString", "*fmt.wrapError"}
\* a value encoding/json cannot encode
ChanV == [k |-> "chan int", v |-> 0]
\* the context handed to Execute
CtxValue == [k |-> "context.backgroundCtx", v |-> 0]

\* Lines 156-163: the input key the binder looks up for a field.
jsonTagOf(field) == IF field.json = "" THEN field.name ELSE Split(field.json)[1]

\* MissingField with a required field's absence made an error (ErrRequired).
MissingFieldMutRequired(field, acc) ==
  IF IsRequired(field.json) THEN {Err(NilValue, "Required.")} ELSE {Ok(acc)}

\* Lines 165-178 on a missing key: the field keeps the zero value that
\* reflect.New gave it.
MissingField(field, acc) == {Ok(acc)}

\* Lines 152-179: the loop over the fields of a struct parameter from field
\* j on; acc is structValue.
RECURSIVE BindFields(_, _, _, _)
BindFields(paramType, params, j, acc) ==
  IF j > Len(paramType.fields) THEN {Ok([k |-> paramType.name, v |-> acc])}
  ELSE LET field == paramType.fields[j]
           jsonTag == jsonTagOf(field)
       IN IF jsonTag \in DOMAIN params
          THEN IF field.exported
               THEN UNION {
                      CASE o.st = "err" -> {Err(NilValue, "failed to convert parameter " \o jsonTag \o ": " \o o.err)}
                        [] o.st = "panic" -> {o}
                        [] OTHER ->
                             IF ~CanHold(ReflectValueOf(o.val), field.type)
                             THEN {Panic("reflect: call of reflect.Value.Set on zero Value")}
                             ELSE BindFields(paramType, params, j + 1, [acc EXCEPT ![j] = o.val])
                      : o \in convertToType(params[jsonTag], field.type) }
               ELSE BindFields(paramType, params, j + 1, acc)
          ELSE UNION { IF m.st = "ok" THEN BindFields(paramType, params, j + 1, m.val) ELSE {m}
                       : m \in MissingField(field, acc) }

\* Lines 203-209: `for name := range params { paramName = name; break }`
\* takes whichever key the map iteration yields first.
FirstParamNames(params) == DOMAIN params

\* Lines 185-225: a parameter that is neither the opaque map nor a struct.
\* The struct-only lookup of lines 188-201 cannot run here.
BindOther(paramType, params) ==
  IF DOMAIN params = {} THEN {Ok(ReflectZero(paramType))}
  ELSE UNION {
         IF paramName = "" THEN {Ok(ReflectZero(paramType))}
         ELSE { CASE o.st = "err" -> Err(NilValue, "failed to convert parameter " \o paramName \o ": " \o o.err)
                  [] o.st = "panic" -> o
                  [] OTHER -> Ok(ReflectValueOf(o.val))
                : o \in convertToType(params[paramName], paramType) }
         : paramName \in FirstParamNames(params) }

\* Lines 136-226 for parameter i: the reflect.Value stored in args[i].
BindParam(fnType, i, argIndex, params) ==
  LET paramType == fnType.in[i]
  IN IF i = argIndex /\ IsGenericMap(paramType) THEN {Ok(ReflectValueOf(MapV(params)))}
     ELSE IF paramType.kind = "Struct"
     THEN { IF o.st = "ok" THEN Ok(ReflectValueOf(o.val)) ELSE o
            : o \in BindFields(paramType, params, 1, ZeroOf(paramType).v) }
     ELSE BindOther(paramType, params)

\* The loop of lines 136-226 from parameter i on.
RECURSIVE BindArgs(_, _, _, _, _)
BindArgs(fnType, i, argIndex, params, args) ==
  IF i > Len(fnType.in) THEN {[st |-> "ok", args |-> args, err |-> ""]}
  ELSE UNION { IF o.st = "ok" THEN BindArgs(fnType, i + 1, argIndex, params, Append(args, o.val))
               ELSE {[st |-> o.st, args |-> <<>>, err |-> o.err]}
               : o \in BindParam(fnType, i, argIndex, params) }

\* What the wrapped function may hand back for one result of type t.
OutValues(t) ==
  CASE t.name = "error" -> {NilValue, ErrV("boom")}
    [] t.kind = "Interface" -> {StrV("done"), NilValue, ChanV}
    [] t.kind \in SignedKinds -> {[k |-> t.name, v |-> 7]}
    [] OTHER -> {ZeroOf(t)}

\* the result tuples the wrapped function may return
RECURSIVE FnResults(_)
FnResults(out) ==
  IF Len(out) = 0 THEN {<<>>}
  ELSE { <<x>> \o rest : x \in OutValues(out[1]), rest \in FnResults(Tail(out)) }

\* reflect.Value.IsNil is defined on these kinds only
NilableKinds == {"Chan", "Func", "Interface", "Map", "Ptr", "Slice", "UnsafePointer"}

\* Lines 231-243: the (any, error) pair, or a panic, made of the results.
ReturnValues(fnType, results) ==
  IF Len(results) = 0 THEN [st |-> "returned", res |-> NilValue, err |-> NilValue]
  ELSE IF Len(results) = 1 THEN [st |-> "returned", res |-> results[1], err |-> NilValue]
  ELSE LET errVal == results[Len(results)]
           errType == fnType.out[Len(results)]
       IN IF errType.kind \notin NilableKinds
          THEN [st |-> "panic", res |-> NilValue, err |-> ErrV("reflect: call of reflect.Value.IsNil on " \o errType.name \o " Value")]
          ELSE IF errVal = NilValue \/ (errType.kind # "Interface" /\ errVal = ZeroOf(errType))
          THEN [st |-> "returned", res |-> results[1], err |-> NilValue]
          ELSE IF errVal.k \in ErrorTypeNames
          THEN [st |-> "returned", res |-> results[1], err |-> errVal]
          ELSE [st |-> "panic", res |-> NilValue, err |-> ErrV("interface conversion: not an error")]

\* Line 229, fnValue.Call(args): reflect checks every argument before the
\* function runs; then the function runs once and returns one of its results.
Call(fnType, args) ==
  IF \E i \in 1..Len(args) : ~CanHold(args[i], fnType.in[i])
  THEN {[st |-> "panic", invoked |-> 0, results |-> <<>>]}
  ELSE {[st |-> "ok", invoked |-> 1, results |-> r] : r \in FnResults(fnType.out)}

\* The body of Tool.Execute, lines 122-243, on the type and the value read
\* from the tool.  An outcome says how the call ended
\* (returned or panic), the pair it returned, how binding ended, the
\* arguments built, how many times the wrapped function ran and what it
\* returned.
ExecuteOn(fnType, fnValue, ctx, params) ==
  LET argIndex == IF hasContext(fnType) THEN 2 ELSE 1
      args0 == IF hasContext(fnType) THEN <<ReflectValueOf(ctx)>> ELSE <<>>
  IN UNION {
       CASE b.st = "err" ->
              {[st |-> "returned", res |-> NilValue, err |-> WrapErrV(b.err), bind |-> "err", args |-> <<>>,
                invoked |-> 0, results |-> <<>>]}
         [] b.st = "panic" ->
              {[st |-> "panic", res |-> NilValue, err |-> ErrV(b.err), bind |-> "panic", args |-> <<>>,
                invoked |-> 0, results |-> <<>>]}
         [] OTHER ->
              { IF c.st = "panic"
                THEN [st |-> "panic", res |-> NilValue, err |-> ErrV("reflect: Call using zero Value argument"),
                      bind |-> "ok", args |-> b.args, invoked |-> 0, results |-> <<>>]
                ELSE LET r == ReturnValues(fnValue, c.results)
                     IN [st |-> r.st, res |-> r.res, err |-> r.err, bind |-> "ok", args |-> b.args,
                         invoked |-> c.invoked, results |-> c.results]
                : c \in Call(fnValue, b.args) }
       : b \in BindArgs(fnType, argIndex, argIndex, params, args0) }

\* Lines 119-120 read t.function twice, once for its type and once for its
\* value; the rest of the call works on what was read.
Execute(t, ctx, params) == ExecuteOn(t.function, t.function, ctx, params)

(***************************************************************************)
(* Tool and the handler of Tool.ServerTool                                 *)
(***************************************************************************)
\* NewFunctionTool, lines 59-73.  The function is kept by its type: what it
\* returns when called is left open (FnResults).
NewFunctionTool(name, description, fn) ==
  [name |-> name, description |-> description, function |-> fn, schema |-> generateSchemaFromFunction(fn)]

\* Tool.Schema, lines 251-253
Schema(t) == t.schema

\* whether encoding/json can encode the value
RECURSIVE Marshalable(_)
Marshalable(x) ==
  CASE x.k = "chan int" -> FALSE
    [] x.k = "[]interface {}" -> \A i \in 1..Len(x.v) : Marshalable(x.v[i])
    [] x.k = "map[string]interface {}" -> \A key \in DOMAIN x.v : Marshalable(x.v[key])
    [] OTHER -> TRUE

\* json.Marshal: the text of a value
RECURSIVE JSONText(_)
JSONText(x) ==
  CASE x.k = "nil" -> "null"
    [] x.k = "bool" -> IF x.v THEN "true" ELSE "false"
    [] x.k \in SignedNames \cup UnsignedNames -> FormatInt(x.v)
    [] x.k \in FloatNames -> FormatFloat(x.v)
    [] x.k = "string" -> "\"" \o x.v \o "\""
    [] x.k = "[]interface {}" -> "[" \o JoinV([i \in 1..Len(x.v) |-> JSONText(x.v[i])], ",") \o "]"
    [] x.k = "map[string]interface {}" ->
         LET ks == SortedKeys(DOMAIN x.v)
         IN "{" \o JoinV([i \in 1..Len(ks) |-> "\"" \o ks[i] \o "\":" \o JSONText(x.v[ks[i]])], ",") \o "}"
    [] OTHER -> "?"

\* json.Unmarshal(json.Marshal(x)) into an interface value: every number
\* comes back a float64, arrays and objects come back generic.
RECURSIVE JSONRoundTrip(_)
JSONRoundTrip(x) ==
  CASE x.k \in SignedNames \cup UnsignedNames -> FloatV(x.v * 10)
    [] x.k \in FloatNames -> FloatV(x.v)
    [] x.k = "[]interface {}" -> SliceV([i \in 1..Len(x.v) |-> JSONRoundTrip(x.v[i])])
    [] x.k = "map[string]interface {}" -> MapV([key \in DOMAIN x.v |-> JSONRoundTrip(x.v[key])])
    [] OTHER -> x

\* mcp.NewToolResultError and mcp.NewToolResultText
NewToolResultError(text) == [isError |-> TRUE, text |-> text]
NewToolResultText(text) == [isError |-> FALSE, text |-> text]

\* no *mcp.CallToolResult: what a handler that panicked has returned
NoResult == [isError |-> FALSE, text |-> ""]

\* The handler of lines 266-286.  An outcome is the (result, error) pair it
\* returned, or the panic that left it; stage names where the call ended.
Handler(t, ctx, arguments) ==
  LET ret(stage, result) == [st |-> "returned", stage |-> stage, result |-> result, err |-> NilValue, panic |-> ""]
      decoded == JSONRoundTrip(arguments)
  IN IF arguments # NilValue /\ ~Marshalable(arguments)
     THEN {ret("decode", NewToolResultError("json: unsupported type: " \o arguments.k))}
     ELSE IF arguments # NilValue /\ decoded.k # "map[string]interface {}"
     THEN {ret("decode", NewToolResultError("json: cannot unmarshal " \o decoded.k \o " into Go value of type map[string]interface {}"))}
     ELSE LET params == IF arguments = NilValue THEN EmptyMap ELSE decoded.v
          IN { IF e.st = "panic"
               THEN [st |-> "panic", stage |-> IF e.bind = "panic" THEN "bind" ELSE "invoke",
                     result |-> NoResult, err |-> NilValue, panic |-> e.err.v]
               ELSE IF e.err # NilValue
               THEN ret(IF e.bind = "err" THEN "bind" ELSE "invoke", NewToolResultError(e.err.v))
               ELSE IF ~Marshalable(e.res)
               THEN ret("encode", NewToolResultError("json: unsupported type: " \o e.res.k))
               ELSE ret("ok", NewToolResultText(JSONText(e.res)))
               : e \in Execute(t, ctx, params) }

(***************************************************************************)
(* The functions, inputs and record types the model runs on                *)
(***************************************************************************)
\* type Req struct { ID int `json:"id"`; Note string `json:"note,omitempty"` }
Req == StructOf("Req", <<Field("ID", TRUE, "id", "", "", IntT), Field("Note", TRUE, "note,omitempty", "", "", StringT)>>)
\* type Flags struct { Flag bool `json:"flag"`; Count uint8 `json:"count"` }
Flags == StructOf("Flags", <<Field("Flag", TRUE, "flag", "", "", BoolT), Field("Count", TRUE, "count", "", "", Uint8T)>>)
\* type Refs struct { Extra any `json:"extra"`; P *int `json:"p"` }
Refs == StructOf("Refs", <<Field("Extra", TRUE, "extra", "", "", AnyT), Field("P", TRUE, "p", "", "", PtrTo(IntT))>>)
\* type Misc struct { secret string `json:"secret"`; Token string `json:"-"`; Extra int8; Name string `json:",omitempty"` }
Misc == StructOf("Misc", <<Field("secret", FALSE, "secret", "", "", StringT), Field("Token", TRUE, "-", "", "", StringT),
                           Field("Extra", TRUE, "", "", "", Int8T), Field("Name", TRUE, ",omitempty", "", "", StringT)>>)

Functions == {
  FuncOf(<<ContextT, Req>>, <<AnyT, ErrorT>>),
  FuncOf(<<ContextT, Flags>>, <<AnyT, ErrorT>>),
  FuncOf(<<Refs>>, <<AnyT>>),
  FuncOf(<<ContextT, Misc>>, <<AnyT, ErrorT>>),
  FuncOf(<<IntT>>, <<IntT>>),
  FuncOf(<<ContextT, SliceOf(IntT)>>, <<AnyT, ErrorT>>),
  FuncOf(<<ContextT, AnyT>>, <<AnyT, ErrorT>>),
  FuncOf(<<ContextT, MapOf(StringT, AnyT)>>, <<AnyT, ErrorT>>),
  FuncOf(<<BoolT>>, <<IntT, IntT>>),
  FuncOf(<<ContextT, MapOf(StringT, IntT), Int8T>>, <<AnyT, ErrorT>>),
  FuncOf(<<ContextT>>, <<>>)
}

\* the values an input map may hold
ParamValues == {
  NilValue, BoolV(TRUE), IntV(300), NumV("uint8", 3), FloatV(37), FloatV(0),
  StrV("42"), StrV("true"), StrV("maybe"),
  SliceV(<<IntV(1), StrV("2"), IntV(3)>>), SliceV(<<IntV(1), StrV("x")>>),
  MapV([x |-> StrV("1")])
}

\* the first parameter after the context, if the function has one
FirstParam(fnType) ==
  LET startIndex == IF hasContext(fnType) THEN 2 ELSE 1
  IN IF Len(fnType.in) < startIndex THEN <<>> ELSE <<fnType.in[startIndex]>>

\* the keys tried on a function: the ones its binder can look up, `value`
\* and a key no field goes by
ParamKeys(fnType) ==
  LET p == FirstParam(fnType)
  IN IF Len(p) = 1 /\ p[1].kind = "Struct"
     THEN {jsonTagOf(p[1].fields[j]) : j \in 1..Len(p[1].fields)} \cup {"x"}
     ELSE {"value", "x", ""}

\* the input maps tried on a function: at most MaxKeys keys
ParamsFor(fnType) ==
  UNION { [ks -> ParamValues] : ks \in {k \in SUBSET ParamKeys(fnType) : Cardinality(k) <= MaxKeys} }

\* req.Params.Arguments: absent, an object, or something that is no object
ArgumentsFor(fnType) == {NilValue, StrV("42"), ChanV} \cup {MapV(p) : p \in ParamsFor(fnType)}

(***************************************************************************)
(* The tool at work: constructed once, then called and looked up           *)
(***************************************************************************)
\* `last` is the record of the operation under way: what was asked and how
\* it ended.  Calls on a tool do not see each other's records, so the next
\* operation starts once the record is put away (Return).
Idle == last.op \in {"NewFunctionTool", "idle"}

Init ==
  /\ tool \in {NewFunctionTool("tool", "a tool", fn) : fn \in Functions}
  /\ last = [op |-> "NewFunctionTool"]

DoExecute ==
  /\ Idle
  /\ \E params \in ParamsFor(tool.function) :
       \E o \in Execute(tool, CtxValue, params) :
         /\ last' = [op |-> "Execute", params |-> params, out |-> o]
         /\ UNCHANGED tool

DoHandler ==
  /\ Idle
  /\ \E arguments \in ArgumentsFor(tool.function) :
       \E o \in Handler(tool, CtxValue, arguments) :
         /\ last' = [op |-> "Handler", arguments |-> arguments, out |-> o]
         /\ UNCHANGED tool

DoSchema ==
  /\ Idle
  /\ last' = [op |-> "Schema", schema |-> Schema(tool)]
  /\ UNCHANGED tool

Return ==
  /\ ~Idle
  /\ last' = [op |-> "idle"]
  /\ UNCHANGED tool

Next == DoExecute \/ DoHandler \/ DoSchema \/ Return

Spec == Init /\ [][Next]_vars

(***************************************************************************)
(* convertToType on its own: Init draws a value and a target type, the     *)
(* one action converts.                                                    *)
(***************************************************************************)
ConvValues == ParamValues \cup {
  BoolV(FALSE), IntV(0), NumV("int8", 5), NumV("uint", 0), NumV("float32", 15),
  FloatV(-37), StrV("TRUE"), StrV("false"), StrV("-7"), StrV(""), StrV("3.7"), ChanV,
  StrV("300"), StrV("99999999999999999999"),
  SliceV(<<>>), SliceV(<<BoolV(TRUE), FloatV(10)>>), SliceV(<<StrV("x"), StrV("y"), IntV(3)>>)
}

ConvTypes == {
  BoolT, IntT, Int8T, UintT, Uint8T, Float64T, StringT, AnyT, ChanT, Req,
  PtrTo(IntT), SliceOf(IntT), SliceOf(BoolT), MapOf(StringT, IntT), MapOf(IntT, StringT),
  SliceOf(StringT), ArrayOf(3, IntT)
}

\* the model's floating-point numbers are tenths below 2^31: the float that
\* a string of ten digits or more reads as is not among them
InModel(v, t) == ~(t.kind \in FloatKinds /\ v.k = "string" /\ Len(v.v) > 9)

InitConv ==
  /\ tool = NewFunctionTool("tool", "a tool", FuncOf(<<ContextT>>, <<>>))
  /\ last \in {[op |-> "input", value |-> vt[1], targetType |-> vt[2]] : vt \in {x \in ConvValues \X ConvTypes : InModel(x[1], x[2])}}

DoConvert ==
  /\ last.op = "input"
  /\ \E o \in convertToType(last.value, last.targetType) :
       last' = [op |-> "convertToType", value |-> last.value, targetType |-> last.targetType, out |-> o]
  /\ UNCHANGED tool

NextConv == DoConvert

SpecConv == InitConv /\ [][NextConv]_vars

(***************************************************************************)
(* Schema synthesis over generated record types: Init constructs the tool  *)
(* for a function of one parameter, the action looks its schema up.        *)
(***************************************************************************)
\* The fields records are generated from.  Their wire names are distinct, as
\* go vet's structtag check asks of the fields of one struct.
FieldPool == {
  Field("ID", TRUE, "id", "the id", "", IntT),
  Field("Note", TRUE, "note,omitempty", "", "a note", StringT),
  Field("Count", TRUE, "count,string", "", "", Uint8T),
  Field("Extra", TRUE, "", "", "", Int8T),
  Field("Name", TRUE, ",omitempty", "", "", StringT),
  Field("Token", TRUE, "-", "", "", StringT),
  Field("secret", FALSE, "", "", "", StringT)
}

\* the sequences of at most n distinct fields of the pool
RECURSIVE FieldSeqs(_)
FieldSeqs(n) ==
  IF n = 0 THEN {<<>>}
  ELSE FieldSeqs(n - 1) \cup
       { Append(fs, f) : fs \in {g \in FieldSeqs(n - 1) : Len(g) = n - 1},
                         f \in FieldPool }

DistinctSeq(fs) == \A i, j \in 1..Len(fs) : i # j => fs[i] # fs[j]

FlatRecords == { StructOf("Flat", fs) : fs \in {g \in FieldSeqs(MaxFields) : DistinctSeq(g)} }

\* a record that holds a flat record directly, behind a pointer, in a slice
\* and in a map, next to a field of its own
NestedRecords ==
  { StructOf("Outer", <<Field("In", TRUE, "in", "inner", "inner", w), Field("Opt", TRUE, "opt,omitempty", "", "", BoolT)>>)
    : w \in UNION { {r, PtrTo(r), SliceOf(r), MapOf(StringT, r)} : r \in FlatRecords } }

SchemaFunctions ==
  { FuncOf(<<ContextT, r>>, <<AnyT, ErrorT>>) : r \in FlatRecords \cup NestedRecords } \cup
  { FuncOf(<<t>>, <<AnyT, ErrorT>>) : t \in ConvTypes \ {Req} } \cup
  { FuncOf(<<ContextT, MapOf(StringT, AnyT)>>, <<AnyT, ErrorT>>), FuncOf(<<ContextT>>, <<>>), FuncOf(<<>>, <<>>) }

InitSchema ==
  /\ tool \in {NewFunctionTool("tool", "a tool", fn) : fn \in SchemaFunctions}
  /\ last = [op |-> "NewFunctionTool"]

NextSchema == DoSchema \/ Return

SpecSchema == InitSchema /\ [][NextSchema]_vars

(***************************************************************************)
(* The claims                                                              *)
(***************************************************************************)
\* the call of Execute on record, and the parameter it binds
ExecDone == last.op = "Execute"
TheParam == FirstParam(tool.function)
ArgIndex == IF hasContext(tool.function) THEN 2 ELSE 1
StructCall == ExecDone /\ Len(TheParam) = 1 /\ TheParam[1].kind = "Struct"
PrimitiveCall ==
  /\ ExecDone /\ Len(TheParam) = 1 /\ Len(tool.function.in) = ArgIndex
  /\ TheParam[1].kind # "Struct" /\ ~IsGenericMap(TheParam[1])
InSeq(x, seq) == \E i \in 1..Len(seq) : seq[i] = x

\* C1: every call of the handler ends by returning a result, a success or a
\* tool error, with a nil error: it never ends in a panic.
C1_HandlerAlwaysReturns ==
  last.op = "Handler" => last.out.st = "returned" /\ last.out.err = NilValue

\* C2: the wrapped function runs exactly once when binding ended without an
\* error and not at all when binding failed; a failed bind returns a nil
\* result with the conversion error; no call runs the function twice.
C2_InvokedOnceIffBound ==
  ExecDone =>
    /\ last.out.invoked <= 1
    /\ (last.out.bind = "ok" => last.out.invoked = 1)
    /\ (last.out.bind = "err" =>
          last.out.invoked = 0 /\ last.out.st = "returned" /\ last.out.res = NilValue
          /\ last.out.err.k = "*fmt.wrapError")

\* C3: a field of a struct parameter whose key is not in the input is bound
\* to the zero value of its type, required or not: with no key of the struct
\* in the input the bind succeeds and the function runs, and a bind error
\* always comes from a key that is present and does not convert.
C3_MissingFieldsAreZero ==
  StructCall =>
    LET pt == TheParam[1]
        o == last.out
        present(j) == jsonTagOf(pt.fields[j]) \in DOMAIN last.params
    IN /\ (o.bind = "ok" =>
             \A j \in 1..Len(pt.fields) :
               ~present(j) => o.args[ArgIndex].x.v[j] = ZeroOf(pt.fields[j].type))
       /\ ((\A j \in 1..Len(pt.fields) : ~present(j)) => o.bind = "ok" /\ o.invoked = 1)
       /\ (o.bind = "err" =>
             \E j \in 1..Len(pt.fields) :
               /\ present(j)
               /\ \E c \in convertToType(last.params[jsonTagOf(pt.fields[j])], pt.fields[j].type) : c.st = "err")

\* the spec's example: fields {id: int required, note: string optional} and
\* input {"id": "42"} bind to id=42, note=""
C3_Witness ==
  /\ StructCall /\ TheParam[1] = Req
  /\ last.params = [id |-> StrV("42")]
  /\ last.out.bind = "ok" /\ last.out.invoked = 1
  /\ last.out.args[ArgIndex].x = [k |-> "Req", v |-> <<IntV(42), StrV("")>>]

\* C4: a single primitive or collection parameter is taken from the key
\* `value` alone: present, its conversion is what is passed (or what fails);
\* absent, the zero value is passed whatever other keys the input holds.
C4_ValueKeyOnly ==
  PrimitiveCall =>
    LET pt == TheParam[1]
        o == last.out
    IN IF "value" \in DOMAIN last.params
       THEN \E c \in convertToType(last.params["value"], pt) :
              IF c.st = "ok" THEN o.bind = "ok" /\ o.args[ArgIndex].x = c.val ELSE o.bind = c.st
       ELSE o.bind = "ok" /\ o.args[ArgIndex] = ReflectZero(pt)

\* the conversion on record
ConvDone == last.op = "convertToType"
NumericNames == SignedNames \cup UnsignedNames \cup FloatNames

\* C5: to a boolean target every number converts, to true iff it is not
\* zero; a bool is returned as it is; a string converts exactly when
\* ParseBool accepts it; every other non-nil input is a conversion error.
C5_BoolCoercion ==
  ConvDone /\ last.targetType.kind = "Bool" /\ last.value # NilValue =>
    CASE last.value.k \in NumericNames -> last.out = Ok(BoolV(last.value.v # 0))
      [] last.value.k = "bool" -> last.out = Ok(last.value)
      [] last.value.k = "string" ->
           IF ParseBool(last.value.v).ok THEN last.out = Ok(BoolV(ParseBool(last.value.v).val))
           ELSE last.out.st = "err"
      [] OTHER -> last.out.st = "err"

\* whether the integer n is a value of the integer type t
FitsInt(n, t) ==
  LET bits == KindBits(t.kind)
  IN IF t.kind \in UnsignedKinds THEN n >= 0 /\ (bits >= 32 \/ n < 2 ^ bits)
     ELSE bits >= 32 \/ (n >= 0 - 2 ^ (bits - 1) /\ n < 2 ^ (bits - 1))

\* a negative number, or a string that reads as one; the claim's cases for an
\* unsigned target are the inputs that are not
Negative(x) ==
  \/ x.k \in NumericNames /\ x.v < 0
  \/ x.k = "string" /\ ParseInt(x.v).ok /\ ParseInt(x.v).val < 0

\* C6: to an integer target of any width, signed or unsigned, a float
\* converts to its truncation toward zero, every integer converts, a string
\* converts exactly when the base-10 parse accepts it, and only the other
\* non-nil inputs are conversion errors.
C6_IntCoercion ==
  /\ ConvDone /\ last.targetType.kind \in SignedKinds \cup UnsignedKinds
  /\ last.value # NilValue /\ ~AssignableTo(last.value.k, last.targetType)
  /\ last.targetType.kind \in UnsignedKinds => ~Negative(last.value)
  =>
    LET t == last.targetType
        gives(n) == last.out.st = "ok" /\ (FitsInt(n, t) => last.out.val = [k |-> t.name, v |-> n])
    IN CASE last.value.k \in FloatNames -> gives(TruncToInt(last.value.v))
         [] last.value.k \in SignedNames \cup UnsignedNames -> gives(last.value.v)
         [] last.value.k = "string" ->
              IF ParseInt(last.value.v).ok THEN gives(ParseInt(last.value.v).val) ELSE last.out.st = "err"
         [] OTHER -> last.out.st = "err"

\* C7: when every key of the input holds nil, the bind succeeds for every
\* parameter type, the function runs, and each argument it receives is the
\* zero value of its parameter type.
C7_NilBindsToZero ==
  /\ ExecDone /\ Len(TheParam) = 1 /\ ~IsGenericMap(TheParam[1])
  /\ DOMAIN last.params # {} /\ \A key \in DOMAIN last.params : last.params[key] = NilValue
  =>
    /\ last.out.bind = "ok" /\ last.out.invoked = 1
    /\ \A i \in ArgIndex..Len(tool.function.in) : last.out.args[i].x = ZeroOf(tool.function.in[i])

\* C8: once the function has run, Execute returns: nothing maps to (nil,
\* nil), one value to (value, nil), two values to (first, second), the
\* second being nil or the function's error; no panic for any function of at
\* most two results.
C8_ReturnMapping ==
  ExecDone /\ last.out.invoked = 1 /\ Len(tool.function.out) <= 2 =>
    LET o == last.out
    IN /\ o.st = "returned"
       /\ CASE Len(o.results) = 0 -> o.res = NilValue /\ o.err = NilValue
            [] Len(o.results) = 1 -> o.res = o.results[1] /\ o.err = NilValue
            [] OTHER -> o.res = o.results[1] /\ o.err = o.results[2]

\* what a field's tag says
MarkedOmitEmpty(field) == field.json # "" /\ \E i \in 2..Len(Split(field.json)) : Split(field.json)[i] = "omitempty"
Untagged(field) == field.json = ""
InSchema(field) == field.exported /\ ~(field.json # "" /\ Split(field.json)[1] = "-")

\* the rules of C9 on one record level
C9Level(fields, required, properties) ==
  \A j \in 1..Len(fields) :
    LET f == fields[j]
    IN /\ (MarkedOmitEmpty(f) => ~InSeq(FieldName(f), required))
       /\ (Untagged(f) /\ InSchema(f) => f.name \in DOMAIN properties /\ InSeq(f.name, required))
       /\ (InSchema(f) => (InSeq(FieldName(f), required) <=> ~MarkedOmitEmpty(f)))

RECURSIVE C9Type(_, _)
C9Type(t, s) ==
  CASE t.kind = "Ptr" -> C9Type(Elem(t), s)
    [] t.kind = "Slice" -> C9Type(Elem(t), s["items"])
    [] t.kind = "Map" /\ Key(t).kind = "String" -> C9Type(Elem(t), s["additionalProperties"])
    [] t.kind = "Struct" ->
         /\ C9Level(t.fields, s["required"], s["properties"])
         /\ \A j \in 1..Len(t.fields) :
              InSchema(t.fields[j]) /\ FieldName(t.fields[j]) \in DOMAIN s["properties"]
                => C9Type(t.fields[j].type, s["properties"][FieldName(t.fields[j])])
    [] OTHER -> TRUE

\* C9: at the root and in every nested record of a synthesized schema, a
\* field marked omitempty is not named in required, an untagged field of the
\* schema goes by its declared name and is named in required, and a field of
\* the schema is named in required iff it is not marked omitempty.
C9_RequiredIffNotOptional ==
  last.op = "Schema" /\ Len(TheParam) = 1 /\ ~IsGenericMap(TheParam[1]) =>
    LET pt == TheParam[1]
        schema == last.schema
    IN IF pt.kind = "Struct"
       THEN /\ C9Level(pt.fields, schema.Required, schema.Properties)
            /\ \A j \in 1..Len(pt.fields) :
                 InSchema(pt.fields[j]) /\ FieldName(pt.fields[j]) \in DOMAIN schema.Properties
                   => C9Type(pt.fields[j].type, schema.Properties[FieldName(pt.fields[j])])
       ELSE C9Type(pt, schema.Properties["value"])

\* a schema with a nested record that has an omitempty field and an untagged one
C9_Witness ==
  /\ last.op = "Schema" /\ Len(TheParam) = 1 /\ TheParam[1].name = "Outer"
  /\ last.schema.Required = <<"in">>
  /\ DOMAIN last.schema.Properties = {"in", "opt"}
  /\ "required" \in DOMAIN last.schema.Properties["in"]
  /\ last.schema.Properties["in"]["required"] = <<"Extra">>
  /\ DOMAIN last.schema.Properties["in"]["properties"] = {"Extra", "note"}

RECURSIVE C10Type(_, _)
C10Type(t, s) ==
  CASE t.kind = "Ptr" -> C10Type(Elem(t), s)
    [] t.kind = "Slice" -> C10Type(Elem(t), s["items"])
    [] t.kind = "Map" /\ Key(t).kind = "String" -> C10Type(Elem(t), s["additionalProperties"])
    [] t.kind = "Struct" ->
         /\ \A i \in 1..Len(s["required"]) : s["required"][i] \in DOMAIN s["properties"]
         /\ \A j \in 1..Len(t.fields) :
              InSchema(t.fields[j]) /\ FieldName(t.fields[j]) \in DOMAIN s["properties"]
                => C10Type(t.fields[j].type, s["properties"][FieldName(t.fields[j])])
    [] OTHER -> TRUE

\* C10: in every synthesized schema the root type is "object" and, at the
\* root and in every nested record, each name in required is a key of the
\* properties of the same level.
C10_RequiredWithinProperties ==
  last.op = "Schema" =>
    LET schema == last.schema
    IN /\ schema.Type = "object"
       /\ \A i \in 1..Len(schema.Required) : schema.Required[i] \in DOMAIN schema.Properties
       /\ Len(TheParam) = 1 /\ ~IsGenericMap(TheParam[1]) =>
            IF TheParam[1].kind = "Struct"
            THEN \A j \in 1..Len(TheParam[1].fields) :
                   InSchema(TheParam[1].fields[j]) /\ FieldName(TheParam[1].fields[j]) \in DOMAIN schema.Properties
                     => C10Type(TheParam[1].fields[j].type, schema.Properties[FieldName(TheParam[1].fields[j])])
            ELSE "value" \in DOMAIN schema.Properties /\ C10Type(TheParam[1], schema.Properties["value"])

\* a schema whose nested record skips a field and requires another
C10_Witness ==
  /\ last.op = "Schema" /\ Len(TheParam) = 1 /\ TheParam[1].name = "Outer"
  /\ TheParam[1].fields[1].type.kind = "Struct"
  /\ last.schema.Required = <<"in">>
  /\ "required" \in DOMAIN last.schema.Properties["in"]
  /\ last.schema.Properties["in"]["required"] = <<"id">>
  /\ DOMAIN last.schema.Properties["in"]["properties"] = {"id"}
  /\ \E j \in 1..Len(TheParam[1].fields[1].type.fields) : ~InSchema(TheParam[1].fields[1].type.fields[j])

\* the wire-name as C11 states it: the name part of the tag when the tag has
\* one, the declared name otherwise
WireName(field) ==
  IF field.json # "" /\ Split(field.json)[1] # "" THEN Split(field.json)[1] ELSE field.name

\* C11: a field of the schema goes by the name part of its json tag, or by
\* its declared name when the tag has no name part: that name is a key of
\* the schema's properties, and it is the input key the binder fills the
\* field from, so that the field stays zero when that key is absent.
C11_WireName ==
  /\ (last.op = "Schema" /\ Len(TheParam) = 1 /\ TheParam[1].kind = "Struct" =>
        \A j \in 1..Len(TheParam[1].fields) :
          InSchema(TheParam[1].fields[j]) => WireName(TheParam[1].fields[j]) \in DOMAIN last.schema.Properties)
  /\ (StructCall /\ last.out.bind = "ok" =>
        \A j \in 1..Len(TheParam[1].fields) :
          LET f == TheParam[1].fields[j]
          IN InSchema(f) /\ WireName(f) \notin DOMAIN last.params
               => last.out.args[ArgIndex].x.v[j] = ZeroOf(f.type))

(***************************************************************************)
(* One tool shared by concurrent calls.  Each caller runs Execute or        *)
(* Schema a statement at a time: Execute reads t.function for its type      *)
(* (line 119), reads it again for its value (line 120), then binds and      *)
(* calls on what it read; Schema reads t.schema (line 252).  Here `last`    *)
(* holds the record of every caller, and the tool as it was constructed.    *)
(***************************************************************************)
\* the callers that share the tool
NProcs == 2
Procs == 1..NProcs

\* Tool.WithSchema, lines 246-249; a nil *Schema is NilValue
WithSchema(t, schema) == [t EXCEPT !.schema = schema]

\* the tools the callers share: constructed, or constructed and then given
\* no schema
ConcFunctions == {
  FuncOf(<<ContextT, Req>>, <<AnyT, ErrorT>>),
  FuncOf(<<IntT>>, <<IntT>>),
  FuncOf(<<ContextT, AnyT>>, <<AnyT, ErrorT>>)
}
ConcTools ==
  {NewFunctionTool("tool", "a tool", fn) : fn \in ConcFunctions} \cup
  {WithSchema(NewFunctionTool("tool", "a tool", fn), NilValue) : fn \in ConcFunctions}

\* the input maps of the concurrent callers: at most one key, of those the
\* binder looks up by name
ConcParams(fnType) ==
  {EmptyMap} \cup UNION { [{key} -> {StrV("42"), StrV("maybe")}] : key \in ParamKeys(fnType) \ {"", "x"} }

\* Execute with a schema built on first use.
ToolAfterExecuteMutLazySchema(t) ==
  IF t.schema = NilValue THEN WithSchema(t, generateSchemaFromFunction(t.function)) ELSE t

\* The tool as a call of Execute leaves it: lines 118-244 assign to no
\* field of t.
ToolAfterExecute(t) == t

\* The tool as a call of Schema leaves it: line 252 only reads t.schema.
ToolAfterSchema(t) == t

NoCall == [pc |-> "idle"]

InitConc ==
  /\ tool \in ConcTools
  /\ last = [op |-> "calls", built |-> tool, calls |-> [p \in Procs |-> NoCall]]

SetCall(p, call) == last' = [last EXCEPT !.calls[p] = call]

\* a caller enters Execute
CallExecute(p) ==
  /\ last.calls[p].pc = "idle"
  /\ \E params \in ConcParams(tool.function) :
       SetCall(p, [pc |-> "l119", op |-> "Execute", params |-> params])
  /\ UNCHANGED tool

\* line 119: fnType := reflect.TypeOf(t.function)
ReadFnType(p) ==
  /\ last.calls[p].pc = "l119"
  /\ SetCall(p, [pc |-> "l120", op |-> "Execute", params |-> last.calls[p].params, fnType |-> tool.function])
  /\ UNCHANGED tool

\* line 120: fnValue := reflect.ValueOf(t.function)
ReadFnValue(p) ==
  /\ last.calls[p].pc = "l120"
  /\ SetCall(p, [pc |-> "l122", op |-> "Execute", params |-> last.calls[p].params,
                 fnType |-> last.calls[p].fnType, fnValue |-> tool.function])
  /\ UNCHANGED tool

\* lines 122-243: bind, call, map the results
BindAndCall(p) ==
  /\ last.calls[p].pc = "l122"
  /\ \E o \in ExecuteOn(last.calls[p].fnType, last.calls[p].fnValue, CtxValue, last.calls[p].params) :
       SetCall(p, [pc |-> "done", op |-> "Execute", params |-> last.calls[p].params, out |-> o])
  /\ tool' = ToolAfterExecute(tool)

\* a caller enters Schema
CallSchema(p) ==
  /\ last.calls[p].pc = "idle"
  /\ SetCall(p, [pc |-> "l252", op |-> "Schema"])
  /\ UNCHANGED tool

\* line 252: return tool.schema
ReadSchema(p) ==
  /\ last.calls[p].pc = "l252"
  /\ SetCall(p, [pc |-> "done", op |-> "Schema", out |-> Schema(tool)])
  /\ tool' = ToolAfterSchema(tool)

\* the caller has its result and may call again
Finish(p) ==
  /\ last.calls[p].pc = "done"
  /\ SetCall(p, NoCall)
  /\ UNCHANGED tool

NextConc ==
  \E p \in Procs :
    \/ CallExecute(p) \/ ReadFnType(p) \/ ReadFnValue(p) \/ BindAndCall(p)
    \/ CallSchema(p) \/ ReadSchema(p) \/ Finish(p)

SpecConc == InitConc /\ [][NextConc]_vars

\* C12: whatever the interleaving of Execute calls and schema lookups on
\* one shared tool, the tool stays as it was constructed, and every call
\* that has ended has an outcome the same call has when it runs alone on
\* the constructed tool.
C12_ToolIsReadOnly ==
  last.op = "calls" =>
    /\ tool = last.built
    /\ \A p \in Procs :
         LET c == last.calls[p]
         IN c.pc = "done" =>
              IF c.op = "Execute" THEN c.out \in Execute(last.built, CtxValue, c.params)
              ELSE c.out = Schema(last.built)

\* two calls of Execute and no other have ended side by side on a tool whose
\* schema was taken away, one with a bind error and one with a result
C12_Witness ==
  /\ last.op = "calls" /\ last.built.schema = NilValue
  /\ \E p, q \in Procs :
       /\ p # q /\ last.calls[p].pc = "done" /\ last.calls[q].pc = "done"
       /\ last.calls[p].op = "Execute" /\ last.calls[q].op = "Execute"
       /\ last.calls[p].out.bind = "ok" /\ last.calls[p].out.invoked = 1
       /\ last.calls[q].out.bind # "ok"

(***************************************************************************)
(* A primitive value put into text and converted back: Init draws the      *)
(* value, the one action formats it with %v and hands the text to          *)
(* convertToType with the value's own type as the target.                  *)
(***************************************************************************)
PrimTypes == {BoolT, IntT, Int8T, UintT, Uint8T, StringT}
\* reflect.TypeOf(x) for a value of a primitive type
TypeOf(x) == CHOOSE t \in PrimTypes : t.name = x.k

RoundValues ==
  {BoolV(TRUE), BoolV(FALSE)} \cup
  {IntV(n) : n \in (0 - 40)..40} \cup {IntV(300), IntV(0 - 129), IntV(65536)} \cup
  {NumV("int8", n) : n \in {0 - 128, 0 - 1, 0, 1, 44, 127}} \cup
  {NumV("uint", n) : n \in {0, 1, 7, 300}} \cup
  {NumV("uint8", n) : n \in {0, 3, 255}} \cup
  {StrV(t) : t \in {"", "42", "-7", "true", "maybe", "3.7", "x"}}

InitRound ==
  /\ tool = NewFunctionTool("tool", "a tool", FuncOf(<<ContextT>>, <<>>))
  /\ last \in {[op |-> "input", value |-> x] : x \in RoundValues}

DoRoundTrip ==
  /\ last.op = "input"
  /\ LET text == Sprintv(last.value)
     IN \E o \in convertToType(StrV(text), TypeOf(last.value)) :
          last' = [op |-> "roundtrip", value |-> last.value, text |-> text, out |-> o]
  /\ UNCHANGED tool

NextRound == DoRoundTrip

SpecRound == InitRound /\ [][NextRound]_vars

\* C13: a boolean, integer or string value formatted as text and converted
\* from that text to its own type comes back equal to the original.
C13_RoundTrip ==
  last.op = "roundtrip" => last.out = Ok(last.value)

(***************************************************************************)
(* The type-shape walk of NewFunctionTool, a call at a time.  `last` holds *)
(* the stack of the calls of getTypeSchema under way: the type each call   *)
(* works on and how many of its component types it has walked.  A type     *)
(* that refers to a declared struct by name stands for that struct, as     *)
(* reflect hands the same Type back for it.  The walk keeps no record of   *)
(* the types it has met; the goroutine stack is what bounds it.            *)
(***************************************************************************)
\* the calls the stack holds before the runtime ends the program with
\* "goroutine stack exceeds limit"
MaxDepth == 6

Named(n) == [name |-> n, kind |-> "Named"]

\* type Node struct { Val int `json:"val"`; Next *Node `json:"next,omitempty"` }
\* type Tree struct { Kids []Tree `json:"kids"` }
\* type Graph struct { Edges map[string]Graph `json:"edges"` }
Declared ==
  [Node |-> StructOf("Node", <<Field("Val", TRUE, "val", "", "", IntT),
                               Field("Next", TRUE, "next,omitempty", "", "", PtrTo(Named("Node")))>>),
   Tree |-> StructOf("Tree", <<Field("Kids", TRUE, "kids", "", "", SliceOf(Named("Tree")))>>),
   Graph |-> StructOf("Graph", <<Field("Edges", TRUE, "edges", "", "", MapOf(StringT, Named("Graph")))>>)]

Resolve(t) == IF t.kind = "Named" THEN Declared[t.name] ELSE t

\* the types getTypeSchema calls itself on for a type, in order (lines 387,
\* 417, 422, 469), and generateSchemaFromFunction for a struct parameter
\* (line 361)
Children(t) ==
  CASE t.kind \in {"Ptr", "Slice", "Array"} -> <<Elem(t)>>
    [] t.kind = "Map" -> IF Key(t).kind = "String" THEN <<Elem(t)>> ELSE <<>>
    [] t.kind = "Struct" ->
         LET kept == SelectSeq(t.fields, LAMBDA f : ~Skipped(f))
         IN [j \in 1..Len(kept) |-> kept[j].type]
    [] OTHER -> <<>>

WalkFunctions ==
  SchemaFunctions \cup
  { FuncOf(<<ContextT, Declared[n]>>, <<AnyT, ErrorT>>) : n \in DOMAIN Declared } \cup
  { FuncOf(<<ContextT, PtrTo(Declared["Node"])>>, <<AnyT, ErrorT>>) }

\* the type the walk starts on (lines 308-321): none for a function without
\* a parameter or with the opaque map
WalkRoot(fnType) ==
  LET p == FirstParam(fnType)
  IN IF Len(p) = 0 \/ IsGenericMap(p[1]) THEN <<>> ELSE <<[t |-> p[1], i |-> 0]>>

InitWalk ==
  /\ tool \in {[name |-> "tool", description |-> "a tool", function |-> fn, schema |-> NilValue] : fn \in WalkFunctions}
  /\ last = [op |-> "walk", st |-> "running", stack |-> WalkRoot(tool.function)]

Walking == last.op = "walk" /\ last.st = "running" /\ Len(last.stack) > 0
Top == last.stack[Len(last.stack)]
Kids == Children(Resolve(Top.t))

\* the call on top calls getTypeSchema on its next component type
Descend ==
  /\ Walking /\ Top.i < Len(Kids) /\ Len(last.stack) < MaxDepth
  /\ last' = [last EXCEPT !.stack = Append([last.stack EXCEPT ![Len(last.stack)].i = Top.i + 1],
                                            [t |-> Kids[Top.i + 1], i |-> 0])]
  /\ UNCHANGED tool

\* the same, with no stack left for the call
Overflow ==
  /\ Walking /\ Top.i < Len(Kids) /\ Len(last.stack) >= MaxDepth
  /\ last' = [last EXCEPT !.st = "stack overflow"]
  /\ UNCHANGED tool

\* the call on top has walked its component types and returns its schema
Ascend ==
  /\ Walking /\ Top.i >= Len(Kids)
  /\ last' = [last EXCEPT !.stack = SubSeq(last.stack, 1, Len(last.stack) - 1)]
  /\ UNCHANGED tool

\* generateSchemaFromFunction returns and NewFunctionTool builds the tool
Built ==
  /\ last.op = "walk" /\ last.st = "running" /\ Len(last.stack) = 0
  /\ last' = [last EXCEPT !.st = "returned"]
  /\ tool' = NewFunctionTool(tool.name, tool.description, tool.function)

NextWalk == Descend \/ Overflow \/ Ascend \/ Built

SpecWalk == InitWalk /\ [][NextWalk]_vars

\* C14: the walk of a parameter type never runs out of stack, whatever the
\* type, a struct with a field that is a pointer to, a slice of or a map of
\* the struct itself included.
C14_WalkTerminates ==
  last.op = "walk" => last.st # "stack overflow"

\* C15: a record that is the type of a field gets, in the sub-schema, the
\* properties (keys, sub-schemas, descriptions) and the required list it
\* gets at the root when it is the function's parameter.
C15_NestedAsRoot ==
  /\ last.op = "Schema" /\ Len(TheParam) = 1 /\ TheParam[1].kind = "Struct"
  /\ TheParam[1].name = "Outer" /\ TheParam[1].fields[1].type.kind = "Struct"
  =>
    LET R == TheParam[1].fields[1].type
        atRoot == generateSchemaFromFunction(FuncOf(<<ContextT, R>>, <<AnyT, ErrorT>>))
        nested == last.schema.Properties[FieldName(TheParam[1].fields[1])]
    IN /\ nested["type"] = "object"
       /\ nested["properties"] = atRoot.Properties
       /\ nested["required"] = atRoot.Required

\* C16: to a slice or array target, a generic sequence converts element by
\* element, in order, to the element type: when every element converts, the
\* result holds the converted elements, as many and in the same order; when
\* one does not, the outcome is an error that names the index of the first
\* such element; an input that is no sequence is an error.
C16_SliceCoercion ==
  /\ ConvDone /\ last.targetType.kind \in {"Slice", "Array"}
  /\ last.value # NilValue /\ ~AssignableTo(last.value.k, last.targetType)
  /\ (last.targetType.kind = "Array" /\ last.value.k = "[]interface {}" => Len(last.value.v) = last.targetType.len)
  =>
    IF last.value.k = "[]interface {}"
    THEN LET elems == last.value.v
             et == Elem(last.targetType)
             bad == {i \in 1..Len(elems) : \E o \in convertToType(elems[i], et) : o.st # "ok"}
         IN IF bad = {}
            THEN /\ last.out.st = "ok" /\ last.out.val.k = last.targetType.name
                 /\ Len(last.out.val.v) = Len(elems)
                 /\ \A i \in 1..Len(elems) : Ok(last.out.val.v[i]) \in convertToType(elems[i], et)
            ELSE LET first == CHOOSE i \in bad : \A j \in bad : i <= j
                     prefix == "cannot convert slice element " \o FormatInt(first - 1) \o ":"
                 IN /\ last.out.st = "err"
                    /\ Len(last.out.err) >= Len(prefix) /\ SubSeq(last.out.err, 1, Len(prefix)) = prefix
    ELSE last.out.st = "err"

\* a string that holds a base-10 integer: an optional sign and digits
IsDecimalInteger(s) ==
  /\ s # ""
  /\ LET body == IF CharAt(s, 1) \in {"+", "-"} THEN Rest(s, 2) ELSE s
     IN body # "" /\ AllDigits(body)

\* C17: to a signed integer target of width w, an integer input and a string
\* that holds a base-10 integer always convert: a value of the target's
\* range comes back unchanged, a value outside it comes back as the value of
\* the target's range that is equal to it modulo 2^w (300 to int8 is 44).
C17_WrapNeverFails ==
  /\ ConvDone /\ last.targetType.kind \in SignedKinds
  /\ last.value # NilValue /\ ~AssignableTo(last.value.k, last.targetType)
  /\ \/ last.value.k \in SignedNames \cup UnsignedNames
     \/ last.value.k = "string" /\ IsDecimalInteger(last.value.v)
  =>
    LET t == last.targetType
        bits == KindBits(t.kind)
        known == last.value.k # "string" \/ Len(last.value.v) < 10
        n == IF last.value.k = "string" THEN ParseInt(last.value.v).val ELSE last.value.v
    IN /\ last.out.st = "ok" /\ last.out.val.k = t.name
       /\ known =>
            IF FitsInt(n, t) THEN last.out.val.v = n
            ELSE FitsInt(last.out.val.v, t) /\ (last.out.val.v - n) % (2 ^ bits) = 0

\* C18: for a struct parameter the input keys that fill fields are the
\* property names of the schema synthesized for it: a field that is filled
\* is a field of the schema, filled from the key it is a property under, so
\* that a field the schema leaves out (unexported, or tagged `-`) stays at
\* its zero value; and every property name is the key of a field the binder
\* can fill.
C18_BinderKeysAreProperties ==
  StructCall /\ last.out.bind = "ok" =>
    LET pt == TheParam[1]
        props == DOMAIN tool.schema.Properties
    IN /\ \A j \in 1..Len(pt.fields) :
            \/ last.out.args[ArgIndex].x.v[j] = ZeroOf(pt.fields[j].type)
            \/ InSchema(pt.fields[j]) /\ jsonTagOf(pt.fields[j]) \in props
       /\ \A key \in props :
            \E j \in 1..Len(pt.fields) : pt.fields[j].exported /\ jsonTagOf(pt.fields[j]) = key

(***************************************************************************)
(* The life of a tool: constructed, then any of its public methods in any  *)
(* order.                                                                  *)
(***************************************************************************)
\* type Function func(ctx context.Context, params any) (any, error), line 16
FunctionT == FuncOf(<<ContextT, AnyT>>, <<AnyT, ErrorT>>)

\* Tool.SetFunction, lines 83-86: the function is replaced, nothing else
SetFunction(t, fn) == [t EXCEPT !.function = fn]

\* Schema.MCPTool, lines 31-37
MCPTool(schema) == [Type |-> schema.Type, Properties |-> schema.Properties, Required |-> schema.Required]

\* Tool.ServerTool, lines 255-288: the protocol tool and its handler, which
\* runs Handler on the tool when a request comes
ServerTool(t) ==
  [Name |-> t.name, Description |-> t.description,
   InputSchema |-> IF t.schema # NilValue THEN MCPTool(t.schema)
                   ELSE [Type |-> "", Properties |-> EmptyMap, Required |-> <<>>]]

\* the schemas handed to WithSchema: none, an empty one, one written by hand
LifeSchemas == {
  NilValue,
  [Type |-> "object", Properties |-> EmptyMap, Required |-> <<>>],
  [Type |-> "object", Properties |-> Put(EmptyMap, "id", Put(EmptyMap, "type", "integer")), Required |-> <<"id">>]
}

DoSetFunction ==
  /\ Idle
  /\ \E fn \in {FunctionT} :
       /\ tool' = SetFunction(tool, fn)
       /\ last' = [op |-> "SetFunction", fn |-> fn]

DoWithSchema ==
  /\ Idle
  /\ \E schema \in LifeSchemas :
       /\ tool' = WithSchema(tool, schema)
       /\ last' = [op |-> "WithSchema", schema |-> schema]

DoServerTool ==
  /\ Idle
  /\ last' = [op |-> "ServerTool", serverTool |-> ServerTool(tool)]
  /\ UNCHANGED tool

NextLife == DoSetFunction \/ DoWithSchema \/ DoServerTool \/ DoExecute \/ DoSchema \/ Return

SpecLife == Init /\ [][NextLife]_vars

\* C19: whatever public methods have run on the tool, its schema is the one
\* synthesized from the function it wraps now.
C19_SchemaFollowsFunction ==
  tool.schema = generateSchemaFromFunction(tool.function)
====
